---- MODULE Spec2Model ----
(***************************************************************************)
(* Model of the PE introspection engine of src/windows/pe/mod.rs.          *)
(*                                                                         *)
(* The backing bytes of an image are a function from byte addresses        *)
(* (relative to base_address) to bytes.  Every structure the code reads is *)
(* laid out in these bytes, little endian, every field with its true       *)
(* width; fields the code never reads are dropped from the layouts (the    *)
(* structure definitions live in windows::ntdll and pe::definitions).      *)
(* Each function of the source is an operator that returns its outcome     *)
(* together with the set of addresses it dereferenced, so a read outside   *)
(* the backing region is visible.                                          *)
(***************************************************************************)
EXTENDS Integers, Sequences, FiniteSets, TLC

\* ------------------------------------------------------------------------
\* Integer widths
\* ------------------------------------------------------------------------
\* TLC's integers are 32-bit signed, so a sum of two u32 values cannot be
\* formed at full width.  A u32 is modelled as a 30-bit word: its four bytes
\* hold 8, 8, 8 and 6 bits, arithmetic wraps (or, with overflow checks,
\* panics) at U32, and the top bit of the word is U32 \div 2.
U16 == 65536
U32 == 1073741824

Min(a, b) == IF a < b THEN a ELSE b

\* the addresses of an n-byte field at address a
Span(a, n) == a .. (a + n - 1)

\* `let v = ...;` followed by the code Then that uses v
Bind(v, Then(_)) == Then(v)

\* ------------------------------------------------------------------------
\* Raw memory reads (mem::transmute / slice::from_raw_parts dereferences).
\* A byte outside the backing region has no defined value; the reader
\* records the address and the action that used it draws its outcome
\* nondeterministically (see Outcomes).
\* ------------------------------------------------------------------------
\* The region is a sequence of bytes: the byte at address a is m[a + 1].
InRegion(m, a) == a >= 0 /\ a < Len(m)
RdU8(m, a) == IF InRegion(m, a) THEN m[a + 1] ELSE 0
RdU16(m, a) == RdU8(m, a) + 256 * RdU8(m, a + 1)
\* (the two high bits of the fourth byte are beyond the modelled word)
RdU32(m, a) == RdU16(m, a) + U16 * (RdU16(m, a + 2) % (U32 \div U16))

\* util::strlen: number of bytes before the first NUL at or after a; the
\* scan stops at the first address outside the backing region
StrEnd(m, a) ==
    IF ~InRegion(m, a) THEN a
    ELSE CHOOSE e \in a .. Len(m) :
            /\ ~InRegion(m, e) \/ m[e + 1] = 0
            /\ \A k \in a .. (e - 1) : m[k + 1] # 0

strlen(m, a) == StrEnd(m, a) - a

\* the bytes strlen reads: the string and its terminator
StrReads(m, a) == a .. StrEnd(m, a)

\* the slice from_raw_parts(a, strlen(a)) as a sequence of bytes
StrAt(m, a) == [k \in 1 .. strlen(m, a) |-> m[a + k]]

\* how many entries of the given size, laid out from address start, begin
\* inside the region: entry number Fit is the first a loop would leave the
\* region with
Fit(m, start, size) ==
    IF ~InRegion(m, start) THEN 0 ELSE ((Len(m) - 1 - start) \div size) + 1

\* <[u8]>::is_ascii
is_ascii(s) == \A k \in 1 .. Len(s) : s[k] < 128

\* ------------------------------------------------------------------------
\* Outcomes.  Option<u32> / Result are records; "panic" is an abort of the
\* process (unwrap on None, index out of bounds, arithmetic overflow with
\* overflow checks on).  reads is the set of addresses dereferenced.
\* ------------------------------------------------------------------------
Some(v, rd) == [tag |-> "some", val |-> v, len |-> 0, reads |-> rd]
None(rd) == [tag |-> "none", val |-> 0, len |-> 0, reads |-> rd]
Panic(rd) == [tag |-> "panic", val |-> 0, len |-> 0, reads |-> rd]
\* Some(&[u8]): the slice of len bytes at address a
SomeSlice(a, n, rd) == [tag |-> "some", val |-> a, len |-> n, reads |-> rd]

\* ------------------------------------------------------------------------
\* Structure layouts (windows::ntdll, pe::definitions): offset of every
\* field the code reads, fields in declaration order with their widths.
\* ------------------------------------------------------------------------
IMAGE_DOS_SIGNATURE == 23117      \* 0x5A4D "MZ"
IMAGE_NT_SIGNATURE == 17744       \* 0x00004550 "PE\0\0"
MACHINE_AMD64 == 34404            \* 0x8664

\* IMAGE_DOS_HEADER: e_magic u16, e_cblp u16, e_lfanew u32
OFF_e_magic == 0
OFF_e_lfanew == 4

\* IMAGE_NT_HEADERS: Signature u32, FileHeader { Machine u16,
\* NumberOfSections u16 }, OptionalHeader
OFF_Signature == 0
OFF_Machine == 4
OFF_NumberOfSections == 6
OFF_OptionalHeader == 8

\* IMAGE_OPTIONAL_HEADER32/64: SizeOfStackReserve (u32 / u64),
\* NumberOfRvaAndSizes u32, DataDirectory [IMAGE_DATA_DIRECTORY; N]
OptOff_NumberOfRvaAndSizes(is_64bit) == IF is_64bit THEN 8 ELSE 4
OptOff_DataDirectory(is_64bit) == IF is_64bit THEN 12 ELSE 8

\* IMAGE_DATA_DIRECTORY: VirtualAddress u32, Size u32
SIZEOF_DATA_DIRECTORY == 8
IMAGE_DIRECTORY_ENTRY_EXPORT == 0
IMAGE_DIRECTORY_ENTRY_IMPORT == 1
IMAGE_DIRECTORY_ENTRY_RESOURCE == 2
NUMBEROF_DIRECTORY_ENTRIES == 3

\* IMAGE_SECTION_HEADER: VirtualAddress u32, SizeOfRawData u32,
\* PointerToRawData u32
SIZEOF_SECTION_HEADER == 12
OFF_VirtualAddress == 0
OFF_SizeOfRawData == 4
OFF_PointerToRawData == 8

\* the engineering maximum of the section table scan
MAX_SECTION_HEADER_LEN == 4

\* IMAGE_IMPORT_DESCRIPTOR: OriginalFirstThunk u32, Name u32
SIZEOF_IMPORT_DESCRIPTOR == 8
OFF_ImportName == 4

\* ------------------------------------------------------------------------
\* Structure layouts of the export and resource directories
\* ------------------------------------------------------------------------
\* IMAGE_EXPORT_DIRECTORY: Base, NumberOfFunctions, NumberOfNames,
\* AddressOfFunctions, AddressOfNames, AddressOfNameOrdinals (all u32)
OFF_Base == 0
OFF_NumberOfFunctions == 4
OFF_NumberOfNames == 8
OFF_AddressOfFunctions == 12
OFF_AddressOfNames == 16
OFF_AddressOfNameOrdinals == 20
SIZEOF_EXPORT_DIRECTORY == 24

\* RESOURCE_DIRECTORY_TABLE: NumberOfNameEntries u16, NumberOfIDEntries u16
OFF_NumberOfNameEntries == 0
OFF_NumberOfIDEntries == 2
SIZEOF_RESOURCE_DIRECTORY_TABLE == 4

\* IMAGE_RESOURCE_DIRECTORY_ENTRY: Id u32, OffsetToData u32
OFF_Id == 0
OFF_OffsetToData == 4
SIZEOF_RESOURCE_DIRECTORY_ENTRY == 8

\* RESOURCE_DATA_ENTRY: DataRVA u32, DataSize u32
OFF_DataRVA == 0
OFF_DataSize == 4

RT_RCDATA == 10
SUBDIR_BIT == U32 \div 2             \* the top bit of a u32 (0x80000000)

\* ------------------------------------------------------------------------
\* The PE handle (struct PE): base_address is 0, every address below is
\* relative to it.
\* ------------------------------------------------------------------------
NoPE == [state |-> "none", nt_headers |-> 0, is_64bit |-> FALSE, is_mapped |-> FALSE]

\* PE<NtHeaders>::size_of
NtHeaders_size_of(pe) ==
    OFF_OptionalHeader + OptOff_DataDirectory(pe.is_64bit)
        + NUMBEROF_DIRECTORY_ENTRIES * SIZEOF_DATA_DIRECTORY

\* PE<ImageOptionalHeader>::address
image_optional_header(pe) == pe.nt_headers + OFF_OptionalHeader

\* PE<ImageOptionalHeader>::number_of_rva_and_sizes
AddrOf_NumberOfRvaAndSizes(pe) ==
    image_optional_header(pe) + OptOff_NumberOfRvaAndSizes(pe.is_64bit)
number_of_rva_and_sizes(m, pe) == RdU32(m, AddrOf_NumberOfRvaAndSizes(pe))

\* PE<ImageOptionalHeader>::data_directory, entry i
AddrOf_DataDirectory(pe, i) ==
    image_optional_header(pe) + OptOff_DataDirectory(pe.is_64bit)
        + i * SIZEOF_DATA_DIRECTORY
DataDirectory_VirtualAddress(m, pe, i) == RdU32(m, AddrOf_DataDirectory(pe, i))
DataDirectory_Size(m, pe, i) == RdU32(m, AddrOf_DataDirectory(pe, i) + 4)

\* PE::section_headers: the slice (base, len) the translator scans
section_headers_base(pe) == pe.nt_headers + NtHeaders_size_of(pe)
section_headers_len(m, pe) ==
    Min(number_of_rva_and_sizes(m, pe), MAX_SECTION_HEADER_LEN)

AddrOf_Section(pe, i) == section_headers_base(pe) + i * SIZEOF_SECTION_HEADER
Section_VirtualAddress(m, pe, i) == RdU32(m, AddrOf_Section(pe, i) + OFF_VirtualAddress)
Section_SizeOfRawData(m, pe, i) == RdU32(m, AddrOf_Section(pe, i) + OFF_SizeOfRawData)
Section_PointerToRawData(m, pe, i) == RdU32(m, AddrOf_Section(pe, i) + OFF_PointerToRawData)

\* ------------------------------------------------------------------------
\* PE::rva_to_foa.  chk is the build's overflow-checks setting: with it an
\* overflowing u32 addition panics, without it the sum wraps.
\* ------------------------------------------------------------------------
RECURSIVE ScanSections(_, _, _, _, _, _)
ScanSections(m, pe, chk, rva, i, rd) ==
    IF i >= section_headers_len(m, pe) THEN None(rd)
    ELSE
      LET a == AddrOf_Section(pe, i)
          va == Section_VirtualAddress(m, pe, i)
          size == Section_SizeOfRawData(m, pe, i)
          ptr == Section_PointerToRawData(m, pe, i)
          rd1 == rd \cup Span(a + OFF_VirtualAddress, 4)
          rd2 == rd1 \cup Span(a + OFF_SizeOfRawData, 4)
          rd3 == rd2 \cup Span(a + OFF_PointerToRawData, 4)
      IN IF rva < va THEN ScanSections(m, pe, chk, rva, i + 1, rd1)
         ELSE IF va + size >= U32 /\ chk THEN Panic(rd2)
         ELSE IF rva <= (va + size) % U32
              THEN IF ptr + (rva - va) >= U32 /\ chk THEN Panic(rd3)
                   ELSE Some((ptr + (rva - va)) % U32, rd3)
              ELSE ScanSections(m, pe, chk, rva, i + 1, rd2)

\* (a variant without the header-region rule: every offset goes to the scan)
rva_to_foa_scan_only(m, pe, chk, rva) ==
    IF section_headers_len(m, pe) = 0
    THEN Panic(Span(AddrOf_NumberOfRvaAndSizes(pe), 4))
    ELSE ScanSections(m, pe, chk, rva, 0, Span(AddrOf_NumberOfRvaAndSizes(pe), 4))

rva_to_foa(m, pe, chk, rva) ==
    LET rd0 == Span(AddrOf_NumberOfRvaAndSizes(pe), 4)
        rd1 == rd0 \cup Span(AddrOf_Section(pe, 0) + OFF_PointerToRawData, 4)
    IN IF section_headers_len(m, pe) = 0 THEN Panic(rd0)   \* section_headers[0]
       ELSE IF rva < Section_PointerToRawData(m, pe, 0) THEN Some(rva, rd1)
       ELSE ScanSections(m, pe, chk, rva, 0, rd1)

\* ------------------------------------------------------------------------
\* PE::check_mapped (called by from_address with is_mapped still false)
\* ------------------------------------------------------------------------
\* one turn of the loop over import_descriptor_table: what it does with
\* descriptor i
ImportStep(m, pe, chk, table, i) ==
    LET d == table + i * SIZEOF_IMPORT_DESCRIPTOR + OFF_ImportName
    IN IF ~InRegion(m, d) THEN [does |-> "leave", reads |-> Span(d, 4)]
       ELSE Bind(rva_to_foa(m, pe, chk, RdU32(m, d)), LAMBDA t :
              IF t.tag = "panic" THEN [does |-> "panic", reads |-> Span(d, 4) \cup t.reads]
              ELSE LET string_foa == IF t.tag = "some" THEN t.val ELSE 0  \* unwrap_or_default
                   IN [does |-> IF is_ascii(StrAt(m, string_foa)) THEN "continue"
                                ELSE "return true",
                       reads |-> Span(d, 4) \cup t.reads \cup StrReads(m, string_foa)])

\* the loop of check_mapped over the count descriptors of the table
ImportLoop(m, pe, chk, table, count, rd) ==
    LET Ends(i) == i >= count \/ ImportStep(m, pe, chk, table, i).does # "continue"
    IN \* the turn the loop ends in: the first that does not continue
       Bind(CHOOSE i \in 0 .. Min(count, Fit(m, table + OFF_ImportName, SIZEOF_IMPORT_DESCRIPTOR)) :
                Ends(i) /\ \A j \in 0 .. (i - 1) : ~Ends(j),
            LAMBDA last :
              Bind(rd \cup UNION {ImportStep(m, pe, chk, table, j).reads
                                     : j \in 0 .. Min(last, count - 1)},
                   LAMBDA rds :
                     IF last >= count THEN Some(FALSE, rds)
                     ELSE Bind(ImportStep(m, pe, chk, table, last).does, LAMBDA does :
                            IF does = "panic" THEN Panic(rds)
                            ELSE Some(does = "return true", rds))))

check_mapped(m, pe, chk) ==
    LET dir == AddrOf_DataDirectory(pe, IMAGE_DIRECTORY_ENTRY_IMPORT)
        length == DataDirectory_Size(m, pe, IMAGE_DIRECTORY_ENTRY_IMPORT)
                      \div SIZEOF_IMPORT_DESCRIPTOR
        \* length - 1 on usize: without overflow checks it wraps to
        \* usize::MAX, a count no region reaches
        count == IF length = 0 THEN U32 ELSE length - 1
    IN Bind(rva_to_foa(m, pe, chk, DataDirectory_VirtualAddress(m, pe, IMAGE_DIRECTORY_ENTRY_IMPORT)),
            LAMBDA t :
              IF t.tag # "some" THEN Panic(Span(dir, 8) \cup t.reads)        \* unwrap()
              ELSE IF length = 0 /\ chk THEN Panic(Span(dir, 8) \cup t.reads)
              ELSE ImportLoop(m, pe, chk, t.val, count, Span(dir, 8) \cup t.reads))

\* ------------------------------------------------------------------------
\* PE::from_address (from_slice and from_ptr forward to it)
\* ------------------------------------------------------------------------
\* (a variant that takes every machine type but i386 for 64-bit)
machine_is_64bit_unless_i386(Machine) == Machine # 332

\* `is_64bit = nt_headers.FileHeader.Machine == 0x8664`
machine_is_64bit(Machine) == Machine = MACHINE_AMD64

from_address(m, chk) ==
    LET nt == RdU32(m, OFF_e_lfanew)
        e_magic == RdU16(m, OFF_e_magic)
        Signature == RdU32(m, nt + OFF_Signature)
        is_64bit == machine_is_64bit(RdU16(m, nt + OFF_Machine))
        pe0 == [state |-> "ok", nt_headers |-> nt, is_64bit |-> is_64bit,
                is_mapped |-> FALSE]
        \* && does not read Signature when e_magic is the DOS signature
        rd0 == Span(OFF_e_lfanew, 4) \cup Span(OFF_e_magic, 2)
                 \cup (IF e_magic # IMAGE_DOS_SIGNATURE THEN Span(nt + OFF_Signature, 4)
                       ELSE {})
    IN IF e_magic # IMAGE_DOS_SIGNATURE /\ Signature # IMAGE_NT_SIGNATURE
       THEN [pe |-> [NoPE EXCEPT !.state = "err"], reads |-> rd0]
       ELSE Bind(check_mapped(m, pe0, chk), LAMBDA cm :
              [pe |-> IF cm.tag = "panic" THEN [pe0 EXCEPT !.state = "panic"]
                      ELSE [pe0 EXCEPT !.is_mapped = cm.val],
               reads |-> rd0 \cup Span(nt + OFF_Machine, 2) \cup cm.reads])

\* ------------------------------------------------------------------------
\* Byte comparison helpers (crate::util)
\* ------------------------------------------------------------------------
RECURSIVE BitXor(_, _)
BitXor(x, y) ==
    IF x = 0 /\ y = 0 THEN 0
    ELSE (((x % 2) + (y % 2)) % 2) + 2 * BitXor(x \div 2, y \div 2)

\* util::compare_strs_as_bytes: the two byte strings are equal
compare_strs_as_bytes(s1, s2) == s1 = s2

\* util::compare_xor_str_and_str_bytes: xor_str unmasked with the repeating
\* key equals str
compare_xor_str_and_str_bytes(xor_str, str, key) ==
    /\ Len(xor_str) = Len(str)
    /\ \A k \in 1 .. Len(str) :
         BitXor(xor_str[k], key[((k - 1) % Len(key)) + 1]) = str[k]

\* ------------------------------------------------------------------------
\* Export resolution
\* ------------------------------------------------------------------------
\* (a variant that translates whatever the mapped state is)
translate_always(m, pe, chk, rva) == rva_to_foa(m, pe, chk, rva)

\* (a variant that translates nothing, whatever the mapped state is)
translate_never(m, pe, chk, rva) == Some(rva, {})

\* `offset = rva; if !self.is_mapped { offset = self.rva_to_foa(offset)? }`
Locate(m, pe, chk, rva) ==
    IF pe.is_mapped THEN Some(rva, {}) ELSE rva_to_foa(m, pe, chk, rva)

\* the comparison of a candidate name with the requested one: want is
\* Exact(export_name) for get_export_rva, Masked(xor_name, key) for
\* get_export_rva_xor_string
Exact(export_name) == [xor |-> FALSE, name |-> export_name, key |-> << >>]
Masked(xor_name, key) == [xor |-> TRUE, name |-> xor_name, key |-> key]

Match(want, name) ==
    IF want.xor THEN compare_xor_str_and_str_bytes(want.name, name, want.key)
    ELSE compare_strs_as_bytes(want.name, name)

\* one turn of the loop over the name table: what it does with name i
NameStep(m, pe, chk, ed, eat, names, i, want) ==
    LET e == names + 4 * i
    IN IF ~InRegion(m, e) THEN [does |-> "leave", out |-> None(Span(e, 4))]
       ELSE Bind(Locate(m, pe, chk, RdU32(m, e)), LAMBDA str :
         LET rd1 == Span(e, 4) \cup str.reads
             rd2 == rd1 \cup StrReads(m, str.val)
         IN IF str.tag = "none" THEN [does |-> "return", out |-> None(rd1)]
            ELSE IF str.tag = "panic" THEN [does |-> "return", out |-> Panic(rd1)]
            ELSE IF ~Match(want, StrAt(m, str.val))
                 THEN [does |-> "continue", out |-> None(rd2)]
            ELSE Bind(Locate(m, pe, chk, RdU32(m, ed + OFF_AddressOfNameOrdinals)),
                      LAMBDA hints :
              LET h == hints.val + 2 * i
                  hint == RdU16(m, h)
                  rd3 == rd2 \cup Span(ed + OFF_AddressOfNameOrdinals, 4) \cup hints.reads
              IN [does |-> "return",
                  out |-> IF hints.tag = "none" THEN None(rd3)
                          ELSE IF hints.tag = "panic" THEN Panic(rd3)
                          ELSE IF hint >= RdU32(m, ed + OFF_NumberOfFunctions)
                               THEN Panic(rd3 \cup Span(h, 2))  \* eat_array[..] out of bounds
                          ELSE Some(RdU32(m, eat + 4 * hint),
                                    rd3 \cup Span(h, 2) \cup Span(eat + 4 * hint, 4))]))

\* the loop over the n names of the name table at names
NameLoop(m, pe, chk, ed, eat, names, n, want, rd) ==
    LET Ends(i) == i >= n \/ NameStep(m, pe, chk, ed, eat, names, i, want).does # "continue"
    IN \* the turn the loop ends in: the first that does not continue
       Bind(CHOOSE i \in 0 .. Min(n, Fit(m, names, 4)) :
                Ends(i) /\ \A j \in 0 .. (i - 1) : ~Ends(j),
            LAMBDA last :
              Bind(rd \cup UNION {NameStep(m, pe, chk, ed, eat, names, j, want).out.reads
                                     : j \in 0 .. Min(last, n - 1)},
                   LAMBDA rds :
                     IF last >= n THEN None(rds)
                     ELSE [NameStep(m, pe, chk, ed, eat, names, last, want).out
                              EXCEPT !.reads = rds]))

\* the name path of the two resolvers (the code of get_export_rva's else
\* branch, repeated in get_export_rva_xor_string)
ByName(m, pe, chk, ed, eat, rd, want) ==
    Bind(Locate(m, pe, chk, RdU32(m, ed + OFF_AddressOfNames)), LAMBDA names :
      LET rd1 == rd \cup Span(ed + OFF_AddressOfNames, 4) \cup names.reads
      IN IF names.tag = "none" THEN None(rd1)
         ELSE IF names.tag = "panic" THEN Panic(rd1)
         ELSE NameLoop(m, pe, chk, ed, eat, names.val, RdU32(m, ed + OFF_NumberOfNames),
                       want, rd1 \cup Span(ed + OFF_NumberOfNames, 4)))

\* the steps both resolvers start with: locate the export directory and
\* the function-address table, then go on with Rest(ed, eat, rd)
WithExportDirectory(m, pe, chk, Rest(_, _, _)) ==
    LET dir == AddrOf_DataDirectory(pe, IMAGE_DIRECTORY_ENTRY_EXPORT)
    IN Bind(Locate(m, pe, chk, DataDirectory_VirtualAddress(m, pe, IMAGE_DIRECTORY_ENTRY_EXPORT)),
            LAMBDA edl :
         LET rd1 == Span(dir, 4) \cup edl.reads
             ed == edl.val
         IN IF edl.tag = "none" THEN None(rd1)
            ELSE IF edl.tag = "panic" THEN Panic(rd1)
            ELSE Bind(Locate(m, pe, chk, RdU32(m, ed + OFF_AddressOfFunctions)),
                      LAMBDA eatl :
              LET rd2 == rd1 \cup Span(ed + OFF_AddressOfFunctions, 4) \cup eatl.reads
              IN IF eatl.tag = "none" THEN None(rd2)
                 ELSE IF eatl.tag = "panic" THEN Panic(rd2)
                 ELSE Rest(ed, eatl.val, rd2 \cup Span(ed + OFF_NumberOfFunctions, 4))))

\* (a variant that reads the four bytes most significant byte first)
probe_big_endian(export_name, after) ==
    << (export_name \o after)[4], (export_name \o after)[3],
       (export_name \o after)[2], (export_name \o after)[1] >>

\* the first four bytes at export_name.as_ptr(): the slice's own bytes and,
\* for a slice shorter than four bytes, the bytes after lying behind it
Probe(export_name, after) == SubSeq(export_name \o after, 1, 4)

\* the ordinal path of get_export_rva
ByOrdinal(m, chk, ed, eat, rd, ordinal) ==
    LET base == RdU32(m, ed + OFF_Base)
        n == RdU32(m, ed + OFF_NumberOfFunctions)
        rd1 == rd \cup Span(ed + OFF_Base, 4)
        slot == eat + 4 * (ordinal - base)
    IN IF ordinal < base THEN None(rd1)
       ELSE IF base + n >= U32 /\ chk THEN Panic(rd1)
       ELSE IF ordinal >= (base + n) % U32 THEN None(rd1)
       ELSE Some(RdU32(m, slot), rd1 \cup Span(slot, 4))

\* PE::get_export_rva
get_export_rva(m, pe, chk, export_name, after) ==
    LET probe == Probe(export_name, after)
        Rest(ed, eat, rd) ==
            IF probe[3] = 0 /\ probe[4] = 0       \* ordinal_test >> 16 == 0
            THEN ByOrdinal(m, chk, ed, eat, rd, probe[1] + 256 * probe[2])
            ELSE ByName(m, pe, chk, ed, eat, rd, Exact(export_name))
    IN WithExportDirectory(m, pe, chk, Rest)

\* PE::get_export_rva_xor_string
get_export_rva_xor_string(m, pe, chk, xor_name, key) ==
    LET Rest(ed, eat, rd) == ByName(m, pe, chk, ed, eat, rd, Masked(xor_name, key))
    IN WithExportDirectory(m, pe, chk, Rest)

\* ------------------------------------------------------------------------
\* Resource extraction
\* ------------------------------------------------------------------------
\* get_entry_offset_by_id: the id-keyed entries follow the name-keyed ones
get_entry_offset_by_id(m, table, id) ==
    LET n == RdU16(m, table + OFF_NumberOfIDEntries)
        Entry(j) == table + SIZEOF_RESOURCE_DIRECTORY_TABLE
                      + SIZEOF_RESOURCE_DIRECTORY_ENTRY * RdU16(m, table + OFF_NumberOfNameEntries)
                      + SIZEOF_RESOURCE_DIRECTORY_ENTRY * j
        Ends(j) == j >= n \/ ~InRegion(m, Entry(j)) \/ RdU32(m, Entry(j) + OFF_Id) = id
    IN \* the turn the loop ends in: the first entry with the id (or off the region)
       Bind(CHOOSE j \in 0 .. Min(n, Fit(m, Entry(0), SIZEOF_RESOURCE_DIRECTORY_ENTRY)) :
                Ends(j) /\ \A k \in 0 .. (j - 1) : ~Ends(k),
            LAMBDA last :
              Bind(Span(table + OFF_NumberOfNameEntries, 2)
                     \cup Span(table + OFF_NumberOfIDEntries, 2)
                     \cup UNION {Span(Entry(j) + OFF_Id, 4) : j \in 0 .. Min(last, n - 1)},
                   LAMBDA rds :
                     IF last >= n \/ ~InRegion(m, Entry(last)) THEN None(rds)
                     ELSE Some(RdU32(m, Entry(last) + OFF_OffsetToData),
                               rds \cup Span(Entry(last) + OFF_OffsetToData, 4))))

\* the offset kept as it was read, its top bit still set
keep_subdirectory_bit(offset) == offset

\* offset &= 0x7FFFFFFF
clear_subdirectory_bit(offset) == offset % SUBDIR_BIT

\* get_resource_data_entry: the address of the leaf's RESOURCE_DATA_ENTRY
get_resource_data_entry(m, root, resource_id) ==
    Bind(get_entry_offset_by_id(m, root, RT_RCDATA), LAMBDA l1 :
      IF l1.tag = "none" THEN None(l1.reads)
      ELSE Bind(get_entry_offset_by_id(m, root + clear_subdirectory_bit(l1.val),
                                       resource_id),
                LAMBDA l2 :
             IF l2.tag = "none" THEN None(l1.reads \cup l2.reads)
             ELSE LET lang == root + clear_subdirectory_bit(l2.val)
                      first == lang + SIZEOF_RESOURCE_DIRECTORY_TABLE + OFF_OffsetToData
                  IN Some(root + RdU32(m, first),
                          l1.reads \cup l2.reads \cup Span(first, 4))))

\* PE::get_pe_resource
get_pe_resource(m, pe, chk, resource_id) ==
    LET dir == AddrOf_DataDirectory(pe, IMAGE_DIRECTORY_ENTRY_RESOURCE)
    IN Bind(Locate(m, pe, chk, DataDirectory_VirtualAddress(m, pe, IMAGE_DIRECTORY_ENTRY_RESOURCE)),
            LAMBDA rt :
         IF rt.tag # "some" THEN [rt EXCEPT !.reads = Span(dir, 4) \cup rt.reads]
         ELSE Bind(get_resource_data_entry(m, rt.val, resource_id), LAMBDA entry :
           LET rd2 == Span(dir, 4) \cup rt.reads \cup entry.reads
           IN IF entry.tag = "none" THEN None(rd2)
              ELSE Bind(Locate(m, pe, chk, RdU32(m, entry.val + OFF_DataRVA)), LAMBDA data :
                LET rd3 == rd2 \cup Span(entry.val + OFF_DataRVA, 4) \cup data.reads
                IN IF data.tag # "some" THEN [data EXCEPT !.reads = rd3]
                   ELSE SomeSlice(data.val, RdU32(m, entry.val + OFF_DataSize),
                                  rd3 \cup Span(entry.val + OFF_DataSize, 4)))))

\* ------------------------------------------------------------------------
\* Input images.  An image is described by a record of parameters and
\* written out as the bytes of a file; Load lays the same file out as
\* the loader maps it.
\* ------------------------------------------------------------------------
\* little-endian bytes of v in an n-byte field
LE(v, n) == [k \in 1 .. n |-> (v \div (256 ^ (k - 1))) % 256]

Wr(a, bytes) == [addr |-> a, bytes |-> bytes]
WrU16(a, v) == Wr(a, LE(v, 2))
WrU32(a, v) == Wr(a, LE(v % U32, 4))

Covers(w, a) == a >= w.addr /\ a < w.addr + Len(w.bytes)

\* the byte the writes ws put at address a, zero where none does
ByteOf(ws, a) ==
    LET hit == {w \in ws : Covers(w, a)}
    IN IF hit = {} THEN 0
       ELSE LET w == CHOOSE w \in hit : TRUE IN w.bytes[a - w.addr + 1]

\* --- file layout of the fixture: where each part of the content sits ---
SIZEOF_DOS_HEADER == 8
NtAddr == SIZEOF_DOS_HEADER
NtSize(is_64bit) ==
    OFF_OptionalHeader + OptOff_DataDirectory(is_64bit)
        + NUMBEROF_DIRECTORY_ENTRIES * SIZEOF_DATA_DIRECTORY
ContentStart == NtAddr + NtSize(TRUE) + MAX_SECTION_HEADER_LEN * SIZEOF_SECTION_HEADER

MaxExports == 3
MaxNameLen == 5
MaxImports == 2
StrSlot == MaxNameLen + 1

ExportFoa == ContentStart
EatFoa == ExportFoa + SIZEOF_EXPORT_DIRECTORY
NameTableFoa == EatFoa + 4 * MaxExports
HintsFoa == NameTableFoa + 4 * MaxExports
ExportStringsFoa == HintsFoa + 2 * MaxExports
ImportFoa == ExportStringsFoa + MaxExports * StrSlot
ImportStringsFoa == ImportFoa + (MaxImports + 1) * SIZEOF_IMPORT_DESCRIPTOR
ResourceFoa == ImportStringsFoa + MaxImports * StrSlot

\* resource tree, offsets relative to the root table
RelL2 == SIZEOF_RESOURCE_DIRECTORY_TABLE + 2 * SIZEOF_RESOURCE_DIRECTORY_ENTRY
RelL3a == RelL2 + SIZEOF_RESOURCE_DIRECTORY_TABLE + 3 * SIZEOF_RESOURCE_DIRECTORY_ENTRY
RelL3b == RelL3a + SIZEOF_RESOURCE_DIRECTORY_TABLE + 2 * SIZEOF_RESOURCE_DIRECTORY_ENTRY
RelLeafA == RelL3b + SIZEOF_RESOURCE_DIRECTORY_TABLE + SIZEOF_RESOURCE_DIRECTORY_ENTRY
RelLeafB == RelLeafA + 8
RelDataA == RelLeafB + 8
DataA == << 161, 162, 163, 164 >>
DataB == << 177, 178, 179, 180 >>
DataLen == Len(DataA)
RelDataB == RelDataA + DataLen
FileSize == ResourceFoa + RelDataB + DataLen

\* a virtual offset no section of the fixture reaches
PastRva == 4 * FileSize

\* --- section tables; d is the distance between a part's virtual offset
\* and its file offset ---
Sec(va, size, ptr) == [va |-> va, size |-> size, ptr |-> ptr]

SectionTable(name, d) ==
    CASE name = "three" ->
           << Sec(ExportFoa + d, ImportFoa - ExportFoa, ExportFoa),
              Sec(ImportFoa + d, ResourceFoa - ImportFoa, ImportFoa),
              Sec(ResourceFoa + d, FileSize - ResourceFoa, ResourceFoa) >>
      [] name = "one" ->
           << Sec(ContentStart + d, FileSize - ContentStart, ContentStart) >>
      [] name = "none" -> << >>
      [] name = "shadow" ->    \* the second section repeats the first's range
           << Sec(ContentStart + d, FileSize - ContentStart, ContentStart),
              Sec(ContentStart + d, ImportFoa - ExportFoa, ImportFoa) >>
      [] name = "wrap" ->      \* VirtualAddress + SizeOfRawData exceeds u32
           << Sec(ContentStart + d, FileSize - ContentStart, ContentStart),
              Sec(U32 - 16, 32, ContentStart) >>
      [] name = "ptrwrap" ->   \* PointerToRawData + (rva - va) exceeds u32
           << Sec(ContentStart + d, FileSize - ContentStart, ContentStart),
              Sec(PastRva, 32, U32 - 16) >>

\* --- the bytes of each part ---
DirWrites(p, is64, i, va, size) ==
    LET a == NtAddr + OFF_OptionalHeader + OptOff_DataDirectory(is64)
                 + i * SIZEOF_DATA_DIRECTORY
    IN {WrU32(a, va), WrU32(a + 4, size)}

HeaderWrites(p) ==
    LET is64 == p.machine = MACHINE_AMD64
        tab == SectionTable(p.table, p.delta)
        secBase == NtAddr + NtSize(is64)
        SecW(i, sc) ==
            LET a == secBase + (i - 1) * SIZEOF_SECTION_HEADER
            IN {WrU32(a + OFF_VirtualAddress, sc.va),
                WrU32(a + OFF_SizeOfRawData, sc.size),
                WrU32(a + OFF_PointerToRawData, sc.ptr)}
    IN {WrU16(OFF_e_magic, p.dosMagic), WrU16(2, p.cblp), WrU32(OFF_e_lfanew, NtAddr),
        WrU32(NtAddr + OFF_Signature, p.ntSig),
        WrU16(NtAddr + OFF_Machine, p.machine),
        WrU16(NtAddr + OFF_NumberOfSections, Len(tab)),
        WrU32(NtAddr + OFF_OptionalHeader + OptOff_NumberOfRvaAndSizes(is64), p.numRva)}
       \cup UNION {SecW(i, tab[i]) : i \in 1 .. Len(tab)}
       \cup (IF p.exp.present
             THEN DirWrites(p, is64, IMAGE_DIRECTORY_ENTRY_EXPORT, ExportFoa + p.delta,
                            ImportFoa - ExportFoa)
             ELSE DirWrites(p, is64, IMAGE_DIRECTORY_ENTRY_EXPORT, 0, 0))
       \cup (IF Len(p.imp.names) > 0
             THEN DirWrites(p, is64, IMAGE_DIRECTORY_ENTRY_IMPORT, ImportFoa + p.delta,
                            (Len(p.imp.names) + p.imp.extra) * SIZEOF_IMPORT_DESCRIPTOR)
             ELSE DirWrites(p, is64, IMAGE_DIRECTORY_ENTRY_IMPORT, 0, 0))
       \cup (IF p.rsrc.present
             THEN DirWrites(p, is64, IMAGE_DIRECTORY_ENTRY_RESOURCE, ResourceFoa + p.delta,
                            FileSize - ResourceFoa)
             ELSE DirWrites(p, is64, IMAGE_DIRECTORY_ENTRY_RESOURCE, 0, 0))

ExportWrites(p) ==
    LET e == p.exp
        d == p.delta
        is64 == p.machine = MACHINE_AMD64
    IN IF ~e.present
       THEN {}
       ELSE {WrU32(ExportFoa + OFF_Base, e.base),
                  WrU32(ExportFoa + OFF_NumberOfFunctions, Len(e.funcs)),
                  WrU32(ExportFoa + OFF_NumberOfNames, Len(e.names)),
                  WrU32(ExportFoa + OFF_AddressOfFunctions, EatFoa + d),
                  WrU32(ExportFoa + OFF_AddressOfNames, NameTableFoa + d),
                  WrU32(ExportFoa + OFF_AddressOfNameOrdinals, HintsFoa + d)}
            \cup {WrU32(EatFoa + 4 * (i - 1), e.funcs[i]) : i \in 1 .. Len(e.funcs)}
            \cup {WrU32(NameTableFoa + 4 * (i - 1),
                        ExportStringsFoa + StrSlot * (i - 1) + d) : i \in 1 .. Len(e.names)}
            \cup {WrU16(HintsFoa + 2 * (i - 1), e.hints[i]) : i \in 1 .. Len(e.hints)}
            \cup {Wr(ExportStringsFoa + StrSlot * (i - 1), e.names[i]) : i \in 1 .. Len(e.names)}

ImportWrites(p) ==
    LET n == Len(p.imp.names)
        d == p.delta
        is64 == p.machine = MACHINE_AMD64
    IN IF n = 0
       THEN {}
       ELSE {WrU32(ImportFoa + SIZEOF_IMPORT_DESCRIPTOR * (i - 1), 1) : i \in 1 .. n}
            \cup {WrU32(ImportFoa + SIZEOF_IMPORT_DESCRIPTOR * (i - 1) + OFF_ImportName,
                        ImportStringsFoa + StrSlot * (i - 1) + d) : i \in 1 .. n}
            \cup {Wr(ImportStringsFoa + StrSlot * (i - 1), p.imp.names[i]) : i \in 1 .. n}

\* a directory table at relative offset rel with its name-keyed entries
\* followed by its id-keyed entries
TableWrites(rel, names, ids) ==
    LET a == ResourceFoa + rel
        all == names \o ids
    IN {WrU16(a + OFF_NumberOfNameEntries, Len(names)),
        WrU16(a + OFF_NumberOfIDEntries, Len(ids))}
       \cup {WrU32(a + SIZEOF_RESOURCE_DIRECTORY_TABLE
                     + SIZEOF_RESOURCE_DIRECTORY_ENTRY * (i - 1) + OFF_Id, all[i].id)
                : i \in 1 .. Len(all)}
       \cup {WrU32(a + SIZEOF_RESOURCE_DIRECTORY_TABLE
                     + SIZEOF_RESOURCE_DIRECTORY_ENTRY * (i - 1) + OFF_OffsetToData, all[i].off)
                : i \in 1 .. Len(all)}

ResourceWrites(p) ==
    LET r == p.rsrc
        d == p.delta
        is64 == p.machine = MACHINE_AMD64
    IN IF ~r.present
       THEN {}
       ELSE TableWrites(0, r.rootNames, r.rootIds)
            \cup TableWrites(RelL2, r.l2Names, r.l2Ids)
            \cup TableWrites(RelL3a, r.l3aNames, r.l3aIds)
            \cup TableWrites(RelL3b, << >>, r.l3bIds)
            \cup {WrU32(ResourceFoa + RelLeafA + OFF_DataRVA, ResourceFoa + RelDataA + d),
                  WrU32(ResourceFoa + RelLeafA + OFF_DataSize, DataLen),
                  WrU32(ResourceFoa + RelLeafB + OFF_DataRVA, ResourceFoa + RelDataB + d),
                  WrU32(ResourceFoa + RelLeafB + OFF_DataSize, DataLen),
                  Wr(ResourceFoa + RelDataA, DataA),
                  Wr(ResourceFoa + RelDataB, DataB)}

\* a corrupted field: the named field is overwritten with val
NoPatch == [field |-> "none", val |-> 0]

PatchWrites(p) ==
    LET f == p.patch.field
        v == p.patch.val
        is64 == p.machine = MACHINE_AMD64
        dir(i) == NtAddr + OFF_OptionalHeader + OptOff_DataDirectory(is64)
                      + i * SIZEOF_DATA_DIRECTORY
    IN CASE f = "none" -> {}
         [] f = "ExportDirVA" -> {WrU32(dir(IMAGE_DIRECTORY_ENTRY_EXPORT), v)}
         [] f = "ImportDirVA" -> {WrU32(dir(IMAGE_DIRECTORY_ENTRY_IMPORT), v)}
         [] f = "ImportDirSize" -> {WrU32(dir(IMAGE_DIRECTORY_ENTRY_IMPORT) + 4, v)}
         [] f = "ResourceDirVA" -> {WrU32(dir(IMAGE_DIRECTORY_ENTRY_RESOURCE), v)}
         [] f = "NumberOfFunctions" -> {WrU32(ExportFoa + OFF_NumberOfFunctions, v)}
         [] f = "NumberOfNames" -> {WrU32(ExportFoa + OFF_NumberOfNames, v)}
         [] f = "AddressOfFunctions" -> {WrU32(ExportFoa + OFF_AddressOfFunctions, v)}
         [] f = "AddressOfNames" -> {WrU32(ExportFoa + OFF_AddressOfNames, v)}
         [] f = "AddressOfNameOrdinals" -> {WrU32(ExportFoa + OFF_AddressOfNameOrdinals, v)}
         [] f = "ExportName0" -> {WrU32(NameTableFoa, v)}
         [] f = "ImportName0" -> {WrU32(ImportFoa + OFF_ImportName, v)}
         [] f = "TypeOffset" ->
              {WrU32(ResourceFoa + SIZEOF_RESOURCE_DIRECTORY_TABLE + OFF_OffsetToData, v)}
         [] f = "IdOffset" ->
              {WrU32(ResourceFoa + RelL2 + SIZEOF_RESOURCE_DIRECTORY_TABLE + OFF_OffsetToData, v)}
         [] f = "LangOffset" ->
              {WrU32(ResourceFoa + RelL3a + SIZEOF_RESOURCE_DIRECTORY_TABLE + OFF_OffsetToData, v)}
         [] f = "DataRVA" -> {WrU32(ResourceFoa + RelLeafA + OFF_DataRVA, v)}
         [] f = "DataSize" -> {WrU32(ResourceFoa + RelLeafA + OFF_DataSize, v)}
         [] f = "e_lfanew" -> {WrU32(OFF_e_lfanew, v)}

PatchFields ==
    {"ExportDirVA", "ImportDirVA", "ImportDirSize", "ResourceDirVA",
     "NumberOfFunctions", "NumberOfNames", "AddressOfFunctions", "AddressOfNames",
     "AddressOfNameOrdinals", "ExportName0", "ImportName0", "TypeOffset",
     "IdOffset", "LangOffset", "DataRVA", "DataSize", "e_lfanew"}
PatchValues == {0, PastRva, U32 - 1}
Patches == {[field |-> f, val |-> v] : f \in PatchFields, v \in PatchValues}

\* the on-disk bytes of the image p describes
FileImage(p) ==
    LET hw == HeaderWrites(p)
        ew == ExportWrites(p)
        iw == ImportWrites(p)
        rw == ResourceWrites(p)
        pw == PatchWrites(p)
        bytes == [a1 \in 1 .. FileSize |->
                    LET a == a1 - 1 IN
                    IF \E w \in pw : Covers(w, a) THEN ByteOf(pw, a)
                    ELSE IF a < ContentStart THEN ByteOf(hw, a)
                    ELSE IF a < ImportFoa THEN ByteOf(ew, a)
                    ELSE IF a < ResourceFoa THEN ByteOf(iw, a)
                    ELSE ByteOf(rw, a)]
    IN SubSeq(bytes, 1, FileSize)

\* the same file as the loader maps it: the headers at the base, every
\* declared section's raw data at its VirtualAddress
Load(file, p) ==
    LET tab == SectionTable(p.table, p.delta)
        In(i, a) == a >= tab[i].va /\ a < tab[i].va + tab[i].size
        bytes == [a1 \in 1 .. (FileSize + p.delta) |->
                    LET a == a1 - 1 IN
                    IF a < ContentStart THEN file[a1]
                    ELSE IF \E i \in 1 .. Len(tab) : In(i, a)
                    THEN LET i == CHOOSE i \in 1 .. Len(tab) :
                                      In(i, a) /\ \A j \in (i + 1) .. Len(tab) : ~In(j, a)
                             src == tab[i].ptr + (a - tab[i].va)
                         IN RdU8(file, src)
                    ELSE 0]
    IN SubSeq(bytes, 1, FileSize + p.delta)

\* --- the parameter values the images are drawn from ---
NameFree == << 70, 114, 101, 101 >>      \* "Free"
NameLoad == << 76, 111, 97, 100 >>       \* "Load"
NameAb == << 97, 98 >>                   \* "ab"
NameNope == << 78, 111, 112, 101 >>      \* "Nope"
DllK == << 75, 46, 100 >>                \* "K.d"
DllN == << 78, 46, 100 >>                \* "N.d"
DllHi == << 75, 200, 100 >>              \* not 7-bit text

FuncRvas == [i \in 1 .. MaxExports |-> 4096 + 16 * i]

Exp0 == [present |-> TRUE, base |-> 1, funcs |-> FuncRvas,
         names |-> << NameFree, NameLoad >>, hints |-> << 1, 0 >>]
ExportConfigs ==
    {Exp0,
     [Exp0 EXCEPT !.present = FALSE],
     [Exp0 EXCEPT !.names = << NameLoad, NameLoad >>],
     [Exp0 EXCEPT !.names = << NameAb, NameLoad >>],
     [Exp0 EXCEPT !.hints = << 1, MaxExports >>],
     [Exp0 EXCEPT !.base = U16 - 1],
     [Exp0 EXCEPT !.names = << >>, !.hints = << >>]}

Imp0 == [names |-> << DllK, DllN >>, extra |-> 1]
ImportConfigs ==
    {Imp0,
     [Imp0 EXCEPT !.names = << >>],
     [Imp0 EXCEPT !.names = << DllK >>],
     [Imp0 EXCEPT !.names = << DllHi, DllN >>],
     [Imp0 EXCEPT !.names = << DllK, DllHi >>],
     [Imp0 EXCEPT !.names = << DllK, DllHi >>, !.extra = 0]}

Ent(id, off) == [id |-> id, off |-> off]
Rsrc0 == [present |-> TRUE,
          rootNames |-> << >>, rootIds |-> << Ent(RT_RCDATA, SUBDIR_BIT + RelL2) >>,
          l2Names |-> << >>,
          l2Ids |-> << Ent(1, SUBDIR_BIT + RelL3a), Ent(2, SUBDIR_BIT + RelL3b) >>,
          l3aNames |-> << >>, l3aIds |-> << Ent(1033, RelLeafA) >>,
          l3bIds |-> << Ent(1033, RelLeafB) >>]
ResourceConfigs ==
    {Rsrc0,
     [Rsrc0 EXCEPT !.present = FALSE],
     [Rsrc0 EXCEPT !.rootIds = << Ent(3, SUBDIR_BIT + RelL2) >>],
     [Rsrc0 EXCEPT !.rootIds = << Ent(3, SUBDIR_BIT + RelL3b),
                                  Ent(RT_RCDATA, SUBDIR_BIT + RelL2) >>],
     [Rsrc0 EXCEPT !.rootNames = << Ent(RT_RCDATA, SUBDIR_BIT + RelL3b) >>],
     [Rsrc0 EXCEPT !.l2Names = << Ent(1, SUBDIR_BIT + RelL3b) >>],
     [Rsrc0 EXCEPT !.rootIds = << Ent(RT_RCDATA, RelL2) >>],
     [Rsrc0 EXCEPT !.l3aNames = << Ent(SUBDIR_BIT + RelDataA, RelLeafB) >>],
     [Rsrc0 EXCEPT !.l3aIds = << >>]}

P0 == [dosMagic |-> IMAGE_DOS_SIGNATURE, cblp |-> 144, ntSig |-> IMAGE_NT_SIGNATURE,
       machine |-> MACHINE_AMD64, numRva |-> NUMBEROF_DIRECTORY_ENTRIES,
       table |-> "three", delta |-> 32,
       exp |-> Exp0, imp |-> Imp0, rsrc |-> Rsrc0, patch |-> NoPatch]

\* machine types: x64; i386 (0x014C) and ARM64 (0xAA64) stand for the others
Machines == {MACHINE_AMD64, 332, 43620}
TableNames == {"three", "one", "none", "shadow", "wrap", "ptrwrap"}
LoadableTables == {"three", "one", "none", "shadow"}
NumRvaValues == {NUMBEROF_DIRECTORY_ENTRIES, 0, 1, MAX_SECTION_HEADER_LEN + 1}

\* The images: the well-formed image P0, P0 with one parameter changed,
\* P0 with both signatures wrong, and P0 with one field corrupted.
Params ==
    {[P0 EXCEPT !.machine = mc] : mc \in Machines}
    \cup {[P0 EXCEPT !.dosMagic = 0], [P0 EXCEPT !.ntSig = 0],
          [P0 EXCEPT !.dosMagic = 0, !.ntSig = 0], [P0 EXCEPT !.cblp = 80],
          [P0 EXCEPT !.delta = 0]}
    \cup {[P0 EXCEPT !.numRva = n] : n \in NumRvaValues}
    \cup {[P0 EXCEPT !.table = t] : t \in TableNames}
    \cup {[P0 EXCEPT !.exp = e] : e \in ExportConfigs}
    \cup {[P0 EXCEPT !.imp = i] : i \in ImportConfigs}
    \cup {[P0 EXCEPT !.rsrc = r] : r \in ResourceConfigs}
    \cup {[P0 EXCEPT !.patch = pt] : pt \in Patches}

\* whether an addition of the code can exceed a u32 on the image of p; the
\* build's overflow-checks setting makes no difference on the others
CanOverflow(p) ==
    p.table \in {"wrap", "ptrwrap"} \/ p.patch.val = U32 - 1

\* ------------------------------------------------------------------------
\* State
\* ------------------------------------------------------------------------
VARIABLES
    disk,             \* the bytes of the image file
    mem,              \* the backing region the PE borrows: disk, or disk mapped
    layout,           \* "file" or "mapped": which of the two mem is
    overflow_checks,  \* the build's overflow-checks setting
    pe,               \* the PE handle (state "none" before construction)
    op,               \* the last operation: its name and argument
    res               \* its outcome and the addresses it dereferenced

vars == << disk, mem, layout, overflow_checks, pe, op, res >>

NoOp == [name |-> "none", arg |-> << >>]
NoRes == None({})

InBounds(rd) == \A a \in rd : InRegion(mem, a)

Init ==
    \E p0 \in Params, wide \in BOOLEAN, ly \in {"file", "mapped"} :
      \E p \in {IF wide THEN p0 ELSE [p0 EXCEPT !.machine = 332]} :
      \E file \in {FileImage(p)} :
         /\ ly = "mapped" => p.table \in LoadableTables
         /\ disk = file
         /\ mem = IF ly = "file" THEN file ELSE Load(file, p)
         /\ layout = ly
         /\ overflow_checks \in (IF CanOverflow(p) THEN BOOLEAN ELSE {TRUE})
         /\ pe = NoPE
         /\ op = NoOp
         /\ res = NoRes

\* ------------------------------------------------------------------------
\* Operations
\* ------------------------------------------------------------------------
\* PE::from_slice / from_ptr / from_address.  A construction that read
\* outside the region has undefined behaviour: it may crash, or finish
\* with either mapped-state.
Construct ==
    /\ pe.state = "none"
    /\ \E r \in {from_address(mem, overflow_checks)} :
          /\ IF InBounds(r.reads) THEN pe' = r.pe
             ELSE \/ pe' = [r.pe EXCEPT !.state = "crash"]
                  \/ /\ r.pe.state = "ok"
                     /\ \E b \in BOOLEAN : pe' = [r.pe EXCEPT !.is_mapped = b]
                  \/ /\ r.pe.state \in {"err", "panic"}
                     /\ pe' = r.pe
          /\ op' = [name |-> "from_address", arg |-> << >>]
          /\ res' = [NoRes EXCEPT !.reads = r.reads]
    /\ UNCHANGED << disk, mem, layout, overflow_checks >>

\* the virtual offsets Translate is tried on: around every boundary of the
\* section table the handle sees
RvaInputs ==
    LET n == section_headers_len(mem, pe)
        Around(x) == {x - 1, x, x + 1} \cap (0 .. (U32 - 1))
    IN {0, PastRva, U32 - 1}
       \cup UNION {Around(Section_VirtualAddress(mem, pe, i)) : i \in 0 .. (n - 1)}
       \cup UNION {Around(Section_VirtualAddress(mem, pe, i)
                          + Section_SizeOfRawData(mem, pe, i)) : i \in 0 .. (n - 1)}
       \cup Around(Section_PointerToRawData(mem, pe, 0))

\* the outcomes of an operation whose model outcome is r: r itself, or,
\* when it read outside the region, whatever the build does with that read
Outcomes(r) ==
    IF InBounds(r.reads) THEN {r}
    ELSE {r, [r EXCEPT !.tag = "crash"]}

\* PE::rva_to_foa
Translate ==
    /\ pe.state = "ok"
    /\ op.name = "from_address"
    /\ \E rva \in RvaInputs :
         /\ op' = [name |-> "rva_to_foa", arg |-> << rva >>]
         /\ res' \in Outcomes(rva_to_foa(mem, pe, overflow_checks, rva))
    /\ UNCHANGED << disk, mem, layout, overflow_checks, pe >>

\* the byte strings resolve_export is tried on: names, and ordinals as the
\* four bytes of ordinal.to_le_bytes().  after is what lies behind a
\* slice shorter than the four bytes the ordinal test reads.
MaskWith(name, key) ==
    [k \in 1 .. Len(name) |-> BitXor(name[k], key[((k - 1) % Len(key)) + 1])]

ProbedNames == {NameFree, NameLoad, NameAb, NameNope}
Ordinals == (0 .. (MaxExports + 1)) \cup {U16 - 1, U16}
ExportInputs ==
    {[name |-> n, after |-> << >>] : n \in {x \in ProbedNames : Len(x) >= 4}}
    \cup {[name |-> n, after |-> a] : n \in {x \in ProbedNames : Len(x) < 4},
                                     a \in {<< 0, 0 >>, << 65, 65 >>}}
    \cup {[name |-> LE(o, 4), after |-> << >>] : o \in Ordinals}

Keys == {<< 90 >>, << 1, 2 >>}
XorInputs ==
    {[name |-> MaskWith(n, k), key |-> k] : n \in {NameLoad, NameNope}, k \in Keys}
    \cup {[name |-> MaskWith(NameAb, << 90 >>), key |-> << 90 >>],
          [name |-> NameLoad, key |-> << 90 >>]}

ResourceIds == {1, 2, 3}

\* PE::get_export_rva
ResolveExport ==
    /\ pe.state = "ok"
    /\ op.name = "from_address"
    /\ \E in \in ExportInputs :
         /\ op' = [name |-> "get_export_rva", arg |-> << in.name, in.after >>]
         /\ res' \in Outcomes(get_export_rva(mem, pe, overflow_checks, in.name, in.after))
    /\ UNCHANGED << disk, mem, layout, overflow_checks, pe >>

\* PE::get_export_rva_xor_string
ResolveExportXor ==
    /\ pe.state = "ok"
    /\ op.name = "from_address"
    /\ \E in \in XorInputs :
         /\ op' = [name |-> "get_export_rva_xor_string", arg |-> << in.name, in.key >>]
         /\ res' \in Outcomes(get_export_rva_xor_string(mem, pe, overflow_checks,
                                                        in.name, in.key))
    /\ UNCHANGED << disk, mem, layout, overflow_checks, pe >>

\* PE::get_pe_resource
ExtractResource ==
    /\ pe.state = "ok"
    /\ op.name = "from_address"
    /\ \E id \in ResourceIds :
         /\ op' = [name |-> "get_pe_resource", arg |-> << id >>]
         /\ res' \in Outcomes(get_pe_resource(mem, pe, overflow_checks, id))
    /\ UNCHANGED << disk, mem, layout, overflow_checks, pe >>

Next ==
    \/ Construct
    \/ Translate
    \/ ResolveExport
    \/ ResolveExportXor
    \/ ExtractResource

Spec == Init /\ [][Next]_vars

\* ------------------------------------------------------------------------
\* Properties
\* ------------------------------------------------------------------------
\* the header fields of the image in mem, read where the format puts them
NtHeadersAt == RdU32(mem, OFF_e_lfanew)
DosSignatureValid == RdU16(mem, OFF_e_magic) = IMAGE_DOS_SIGNATURE
NtSignatureValid == RdU32(mem, NtHeadersAt + OFF_Signature) = IMAGE_NT_SIGNATURE
MachineField == RdU16(mem, NtHeadersAt + OFF_Machine)
\* the file header lies inside the backing region
FileHeaderInRegion == InRegion(mem, NtHeadersAt + OFF_NumberOfSections + 1)

\* C1: construction returns no Image unless both the DOS signature and the
\* NT signature are valid: whenever at least one of the two is wrong,
\* construction has failed.
C1_RejectsUnlessBothSignaturesValid ==
    (op.name # "none" /\ (~DosSignatureValid \/ ~NtSignatureValid))
        => pe.state # "ok"

\* C2: every constructed Image reports 64 bits exactly when the file
\* header's machine type is 0x8664, and 32 bits for every other value.
C2_BitWidthFollowsMachine ==
    (pe.state = "ok" /\ FileHeaderInRegion)
        => (pe.is_64bit <=> MachineField = MACHINE_AMD64)

C2_Witness_Reports64 ==
    /\ op.name = "from_address"
    /\ pe.state = "ok"
    /\ FileHeaderInRegion
    /\ MachineField = MACHINE_AMD64
    /\ pe.is_64bit

\* where the structure at virtual offset rva lies in mem: at rva in a
\* mapped image, at the section table's translation of rva in a file
PlaceOf(rva) ==
    IF layout = "mapped" THEN rva
    ELSE rva_to_foa(mem, pe, overflow_checks, rva).val

\* the export directory of the image in mem and its tables
ExportDirectoryPresent ==
    DataDirectory_VirtualAddress(mem, pe, IMAGE_DIRECTORY_ENTRY_EXPORT) # 0
ExportDirectoryAt ==
    PlaceOf(DataDirectory_VirtualAddress(mem, pe, IMAGE_DIRECTORY_ENTRY_EXPORT))
ExportBase == RdU32(mem, ExportDirectoryAt + OFF_Base)
ExportNumberOfFunctions == RdU32(mem, ExportDirectoryAt + OFF_NumberOfFunctions)
\* the indices of the name table (the fixture has room for MaxExports)
ExportNameIndices ==
    0 .. (Min(RdU32(mem, ExportDirectoryAt + OFF_NumberOfNames), MaxExports) - 1)
ExportNameAt(i) ==
    StrAt(mem, PlaceOf(RdU32(mem, PlaceOf(RdU32(mem, ExportDirectoryAt + OFF_AddressOfNames))
                                      + 4 * i)))
ExportHintAt(i) ==
    RdU16(mem, PlaceOf(RdU32(mem, ExportDirectoryAt + OFF_AddressOfNameOrdinals)) + 2 * i)
ExportFunctionAt(k) ==
    RdU32(mem, PlaceOf(RdU32(mem, ExportDirectoryAt + OFF_AddressOfFunctions)) + 4 * k)

\* C3: name-based and ordinal-based resolution agree: when the name just
\* resolved is the name at index i of the export name table, resolving the
\* ordinal Base + hint[i] gives the same outcome, in file and mapped layout.
C3_NameAndOrdinalAgree ==
    (/\ op.name = "get_export_rva"
     /\ pe.state = "ok"
     /\ ExportDirectoryPresent
     /\ InBounds(res.reads))
        => \A i \in ExportNameIndices :
             (op.arg[1] = ExportNameAt(i) /\ ExportBase + ExportHintAt(i) < U16)
                 => \E byOrdinal \in {get_export_rva(mem, pe, overflow_checks,
                                                     LE(ExportBase + ExportHintAt(i), 4), << >>)} :
                      /\ res.tag = byOrdinal.tag
                      /\ res.val = byOrdinal.val

\* the section table the handle scans, as the image in mem holds it
SectionIndices == 0 .. (section_headers_len(mem, pe) - 1)
\* virtual offset x lies in section k's range [VirtualAddress,
\* VirtualAddress + SizeOfRawData], the sum taken in the integers
InSectionRange(k, x) ==
    /\ Section_VirtualAddress(mem, pe, k) <= x
    /\ x <= Section_VirtualAddress(mem, pe, k) + Section_SizeOfRawData(mem, pe, k)
InHeaderRegion(x) ==
    SectionIndices # {} /\ x < Section_PointerToRawData(mem, pe, 0)
Translated == op.name = "rva_to_foa" /\ pe.state = "ok" /\ InBounds(res.reads)

\* C4: translate returns a virtual offset below the first section's file
\* pointer unchanged, and translating the result again returns it again.
C4_HeaderOffsetsUnchanged ==
    (Translated /\ InHeaderRegion(op.arg[1]))
        => /\ res.tag = "some"
           /\ res.val = op.arg[1]
           /\ \E again \in {rva_to_foa(mem, pe, overflow_checks, res.val)} :
                 again.tag = "some" /\ again.val = op.arg[1]

C4_Witness_HeaderOffset ==
    /\ Translated
    /\ InHeaderRegion(op.arg[1])
    /\ op.arg[1] > 0
    /\ res.tag = "some"
    /\ res.val = op.arg[1]

\* C5: for an offset outside the header region translate returns
\* PointerToRawData + (offset - VirtualAddress) of the first section, in
\* declaration order, whose range contains the offset, and not-found when
\* no section contains it.
C5_FirstContainingSection ==
    (Translated /\ SectionIndices # {} /\ ~InHeaderRegion(op.arg[1]))
        => LET x == op.arg[1]
               containing == {k \in SectionIndices : InSectionRange(k, x)}
               first == CHOOSE k \in containing : \A j \in containing : k <= j
           IN IF containing = {} THEN res.tag = "none"
              ELSE /\ res.tag = "some"
                   /\ res.val = Section_PointerToRawData(mem, pe, first)
                                   + (x - Section_VirtualAddress(mem, pe, first))

\* the sections the file header declares
DeclaredSectionIndices ==
    0 .. (Min(RdU16(mem, NtHeadersAt + OFF_NumberOfSections), MAX_SECTION_HEADER_LEN) - 1)
\* virtual offset x lies past the range of every section of the image
PastEverySection(x) ==
    /\ DeclaredSectionIndices # {}
    /\ \A k \in DeclaredSectionIndices \cup SectionIndices :
          x > Section_VirtualAddress(mem, pe, k) + Section_SizeOfRawData(mem, pe, k)
\* data directory dir holds such an offset
DirectoryCorrupted(dir) ==
    PastEverySection(DataDirectory_VirtualAddress(mem, pe, dir))
ExportLookups == {"get_export_rva", "get_export_rva_xor_string"}

\* C6: on an image whose data-directory entry holds an offset past every
\* section's range, translate of that offset returns not-found, and the two
\* export resolvers and extract_resource return not-found having read no
\* address outside the backing region.
C6_CorruptedDirectoryNotFound ==
    pe.state = "ok" =>
        /\ (/\ op.name = "rva_to_foa"
            /\ \E dir \in {IMAGE_DIRECTORY_ENTRY_EXPORT, IMAGE_DIRECTORY_ENTRY_RESOURCE} :
                  /\ DirectoryCorrupted(dir)
                  /\ op.arg[1] = DataDirectory_VirtualAddress(mem, pe, dir))
               => res.tag = "none"
        /\ (op.name \in ExportLookups /\ DirectoryCorrupted(IMAGE_DIRECTORY_ENTRY_EXPORT))
               => (res.tag = "none" /\ InBounds(res.reads))
        /\ (op.name = "get_pe_resource" /\ DirectoryCorrupted(IMAGE_DIRECTORY_ENTRY_RESOURCE))
               => (res.tag = "none" /\ InBounds(res.reads))

\* the name an export lookup asked for, when it took its input as a name
TakenAsName ==
    \/ op.name = "get_export_rva_xor_string"
    \/ op.name = "get_export_rva" /\ Len(op.arg[1]) >= 4
                                  /\ (op.arg[1][3] # 0 \/ op.arg[1][4] # 0)
RequestedName ==
    IF op.name = "get_export_rva_xor_string" THEN MaskWith(op.arg[1], op.arg[2])
    ELSE op.arg[1]
\* the indices of the name table whose name is the requested one
MatchingIndices == {i \in ExportNameIndices : ExportNameAt(i) = RequestedName}

\* C7: an export lookup returns not-found when the export directory is
\* absent, when the function-address-table index it resolved is out of
\* range, when translating the directory's offset fails, and when no name
\* of the name table matches.
C7_ExportLookupNotFound ==
    (op.name \in ExportLookups /\ pe.state = "ok" /\ InBounds(res.reads)) =>
        /\ ~ExportDirectoryPresent => res.tag = "none"
        /\ (/\ ExportDirectoryPresent
            /\ TakenAsName
            /\ \E i \in MatchingIndices :
                  /\ \A j \in MatchingIndices : i <= j
                  /\ ExportHintAt(i) >= ExportNumberOfFunctions)
               => res.tag = "none"
        /\ (/\ ~pe.is_mapped
            /\ rva_to_foa(mem, pe, overflow_checks,
                          DataDirectory_VirtualAddress(mem, pe, IMAGE_DIRECTORY_ENTRY_EXPORT)).tag
                  = "none")
               => res.tag = "none"
        /\ (ExportDirectoryPresent /\ TakenAsName /\ MatchingIndices = {})
               => res.tag = "none"

\* C8: no operation aborts the process: construction and every query end
\* in a value or in an absent/error result, never in a panic.
C8_NoOperationPanics ==
    pe.state # "panic" /\ res.tag # "panic"

\* the n bytes of m at address a
BytesAt(m, a, n) == [k \in 1 .. n |-> m[a + k]]
SliceInRegion(m, r) == r.val >= 0 /\ r.val + r.len <= Len(m)

\* C9: extract_resource returns the same bytes for the file and for the
\* same file mapped: whenever the handle over the file's bytes extracts the
\* resource, the handle over the mapped image extracts a range of the same
\* size and content.
C9_SameBytesOnDiskAndMapped ==
    (layout = "mapped" /\ op.name = "get_pe_resource" /\ pe.state = "ok") =>
        \A onDisk \in {from_address(disk, overflow_checks).pe} :
          \A d \in {get_pe_resource(disk, onDisk, overflow_checks, op.arg[1])} :
            (/\ onDisk.state = "ok"
             /\ ~onDisk.is_mapped
             /\ d.tag = "some"
             /\ \A a \in d.reads : InRegion(disk, a)
             /\ SliceInRegion(disk, d))
                => /\ res.tag = "some"
                   /\ res.len = d.len
                   /\ SliceInRegion(mem, res)
                   /\ BytesAt(mem, res.val, res.len) = BytesAt(disk, d.val, d.len)

\* A resource directory table as the format lays it out: a header that
\* counts the name-keyed and the id-keyed entries, then the entries
\* (key, offset), name-keyed ones first.
NameEntryCount(t) == RdU16(mem, t + OFF_NumberOfNameEntries)
IdEntryCount(t) == RdU16(mem, t + OFF_NumberOfIDEntries)
EntryOf(t, j) == t + SIZEOF_RESOURCE_DIRECTORY_TABLE + SIZEOF_RESOURCE_DIRECTORY_ENTRY * j
TableInRegion(t) ==
    /\ t >= 0 /\ InRegion(mem, EntryOf(t, 0) - 1)
    /\ InRegion(mem, EntryOf(t, NameEntryCount(t) + IdEntryCount(t)) - 1)
IdEntry(t, j) == EntryOf(t, NameEntryCount(t) + j)
IdMatches(t, id) ==
    {j \in 0 .. (IdEntryCount(t) - 1) : RdU32(mem, IdEntry(t, j) + OFF_Id) = id}
FirstIdMatch(t, id) ==
    CHOOSE j \in IdMatches(t, id) : \A k \in IdMatches(t, id) : j <= k
WithoutTopBit(x) == IF x >= SUBDIR_BIT THEN x - SUBDIR_BIT ELSE x
SubdirectoryOf(root, t, id) ==
    root + WithoutTopBit(RdU32(mem, IdEntry(t, FirstIdMatch(t, id)) + OFF_OffsetToData))

\* What the three-level walk for the requested id comes to, read off the
\* image: "skip" where a table of the walk lies outside the region or a
\* translation does not return.
Walk(tag, at, size) == [tag |-> tag, val |-> at, len |-> size]
ExpectedWalk ==
    Bind(Locate(mem, pe, overflow_checks,
                DataDirectory_VirtualAddress(mem, pe, IMAGE_DIRECTORY_ENTRY_RESOURCE)),
         LAMBDA root :
      IF root.tag = "panic" THEN Walk("skip", 0, 0)
      ELSE IF root.tag = "none" THEN Walk("none", 0, 0)
      ELSE IF ~TableInRegion(root.val) THEN Walk("skip", 0, 0)
      ELSE IF IdMatches(root.val, RT_RCDATA) = {} THEN Walk("none", 0, 0)
      ELSE Bind(SubdirectoryOf(root.val, root.val, RT_RCDATA), LAMBDA typeDir :
        IF ~TableInRegion(typeDir) THEN Walk("skip", 0, 0)
        ELSE IF IdMatches(typeDir, op.arg[1]) = {} THEN Walk("none", 0, 0)
        ELSE Bind(SubdirectoryOf(root.val, typeDir, op.arg[1]), LAMBDA langDir :
          IF ~InRegion(mem, EntryOf(langDir, 1) - 1) THEN Walk("skip", 0, 0)
          ELSE Bind(root.val + RdU32(mem, EntryOf(langDir, 0) + OFF_OffsetToData),
                    LAMBDA leaf :
            IF ~InRegion(mem, leaf + OFF_DataSize + 3) THEN Walk("skip", 0, 0)
            ELSE Bind(Locate(mem, pe, overflow_checks, RdU32(mem, leaf + OFF_DataRVA)),
                      LAMBDA data :
              IF data.tag = "panic" THEN Walk("skip", 0, 0)
              ELSE IF data.tag = "none" THEN Walk("none", 0, 0)
              ELSE Walk("some", data.val, RdU32(mem, leaf + OFF_DataSize)))))))

\* C10: extract_resource walks exactly three levels: the id-keyed entry
\* for the raw-data type at the root, the id-keyed entry equal to the
\* requested id below it, then the first entry of the language table;
\* subdirectory offsets are relative to the root with the top bit cleared;
\* a search that finds nothing, or a failed translation, gives not-found.
C10_ThreeLevelWalk ==
    (op.name = "get_pe_resource" /\ pe.state = "ok" /\ ExpectedWalk.tag # "skip") =>
        /\ res.tag = ExpectedWalk.tag
        /\ res.val = ExpectedWalk.val
        /\ res.len = ExpectedWalk.len

C10_Witness_LeafReached ==
    /\ op.name = "get_pe_resource" /\ pe.state = "ok"
    /\ ExpectedWalk.tag = "some" /\ ExpectedWalk.len > 0
    /\ res.tag = "some"
C10_Witness_SearchFails ==
    /\ op.name = "get_pe_resource" /\ pe.state = "ok"
    /\ ExpectedWalk.tag = "none"
    /\ res.tag = "none"

\* the export directory and the function-address table where the handle
\* looks for them: untranslated in mapped state, translated otherwise
HandleExportDirectory ==
    Locate(mem, pe, overflow_checks,
           DataDirectory_VirtualAddress(mem, pe, IMAGE_DIRECTORY_ENTRY_EXPORT))
HandleFunctionTable ==
    Locate(mem, pe, overflow_checks,
           RdU32(mem, HandleExportDirectory.val + OFF_AddressOfFunctions))
HandleTablesFound ==
    /\ HandleExportDirectory.tag = "some"
    /\ HandleExportDirectory.val + SIZEOF_EXPORT_DIRECTORY <= Len(mem)
    /\ HandleFunctionTable.tag = "some"
\* the four bytes at the start of the input of get_export_rva
InputWord == SubSeq(op.arg[1] \o op.arg[2], 1, 4)
InputUpperHalfZero == InputWord[3] = 0 /\ InputWord[4] = 0
InputLowerHalf == InputWord[1] + 256 * InputWord[2]
\* what an ordinal lookup may read without reading a table entry
OrdinalCheckReads ==
    Span(AddrOf_DataDirectory(pe, IMAGE_DIRECTORY_ENTRY_EXPORT), 4)
      \cup HandleExportDirectory.reads \cup HandleFunctionTable.reads
      \cup Span(HandleExportDirectory.val, SIZEOF_EXPORT_DIRECTORY)
OrdinalLookup ==
    /\ op.name = "get_export_rva" /\ pe.state = "ok"
    /\ InputUpperHalfZero
    /\ HandleTablesFound

\* C11: ordinal lookup takes the input as a 16-bit ordinal and returns
\* function-address-table entry [ordinal - Base] exactly when
\* Base <= ordinal < Base + NumberOfFunctions; outside that range it
\* returns not-found and reads no table entry.
C11_OrdinalBoundChecked ==
    OrdinalLookup =>
      \A ed \in {HandleExportDirectory.val} :
        \A base \in {RdU32(mem, ed + OFF_Base)} :
          \A count \in {RdU32(mem, ed + OFF_NumberOfFunctions)} :
            \A slot \in {HandleFunctionTable.val + 4 * (InputLowerHalf - base)} :
              IF base <= InputLowerHalf /\ InputLowerHalf - base < count
              THEN InRegion(mem, slot + 3)
                     => res.tag = "some" /\ res.val = RdU32(mem, slot)
              ELSE res.tag = "none" /\ res.reads \subseteq OrdinalCheckReads

\* the index of the section descriptor the byte at address a belongs to
DescriptorIndexOf(a) == (a - section_headers_base(pe)) \div SIZEOF_SECTION_HEADER

\* C12: the section table translate scans holds min(declared number of
\* sections, engineering maximum) descriptors: translate reads no
\* descriptor at an index at or beyond the declared count or the cap, and
\* a scan that matches nothing has gone through every declared one.
C12_ScanWithinDeclaredSections ==
    (op.name = "rva_to_foa" /\ pe.state = "ok" /\ res.tag # "panic") =>
        /\ \A a \in res.reads :
              a >= section_headers_base(pe) => DescriptorIndexOf(a) \in DeclaredSectionIndices
        /\ res.tag = "none" =>
              \A k \in DeclaredSectionIndices :
                 AddrOf_Section(pe, k) + OFF_VirtualAddress \in res.reads

\* the bytes that may lie behind a name in the caller's memory (none are
\* looked at behind a name of four bytes or more)
BytesBehind(name) == IF Len(name) >= 4 THEN {<< >>} ELSE {<< 0, 0 >>, << 65, 65 >>}

\* C13: the XOR-obfuscated lookup performs the same scan as the exact-name
\* lookup: get_export_rva_xor_string(name masked with key, key) ends in the
\* same outcome as get_export_rva(name).
C13_XorLookupSameAsExact ==
    (op.name = "get_export_rva_xor_string" /\ pe.state = "ok" /\ InBounds(res.reads)) =>
        \A name \in {MaskWith(op.arg[1], op.arg[2])} :
          \A after \in BytesBehind(name) :
            \A exact \in {get_export_rva(mem, pe, overflow_checks, name, after)} :
               res.tag = exact.tag /\ res.val = exact.val

\* where the handle is to look for virtual offset rva: at rva itself in
\* mapped state, at its translation otherwise
HandlePlace(rva) ==
    IF pe.is_mapped THEN [tag |-> "some", val |-> rva]
    ELSE [tag |-> rva_to_foa(mem, pe, overflow_checks, rva).tag,
          val |-> rva_to_foa(mem, pe, overflow_checks, rva).val]
Found(x) == x.tag = "some"

\* What the exact-name scan for the requested name comes to, read off the
\* image in mem: the first index of the name table whose name is the
\* requested one and the function-address-table entry under its hint;
\* "skip" where no name matches, a table lies outside the region, an
\* offset does not translate, or the table has no entry under the hint.
NoScan == [tag |-> "skip", val |-> 0, first |-> 0, names |-> 0, dir |-> 0,
           hint |-> 0, entry |-> 0]
ExpectedScan(requested) ==
    Bind(HandlePlace(DataDirectory_VirtualAddress(mem, pe, IMAGE_DIRECTORY_ENTRY_EXPORT)),
         LAMBDA ed :
      IF ~Found(ed) \/ ed.val + SIZEOF_EXPORT_DIRECTORY > Len(mem) THEN NoScan
      ELSE Bind(<< HandlePlace(RdU32(mem, ed.val + OFF_AddressOfFunctions)),
                   HandlePlace(RdU32(mem, ed.val + OFF_AddressOfNames)),
                   HandlePlace(RdU32(mem, ed.val + OFF_AddressOfNameOrdinals)),
                   RdU32(mem, ed.val + OFF_NumberOfNames),
                   RdU32(mem, ed.val + OFF_NumberOfFunctions) >>,
                LAMBDA t :
        IF ~Found(t[1]) \/ ~Found(t[2]) \/ ~Found(t[3]) THEN NoScan
        ELSE Bind({j \in 0 .. (Min(t[4], Fit(mem, t[2].val, 4)) - 1) :
                      Found(HandlePlace(RdU32(mem, t[2].val + 4 * j)))
                      /\ StrAt(mem, HandlePlace(RdU32(mem, t[2].val + 4 * j)).val) = requested},
                  LAMBDA matches :
          IF matches = {} THEN NoScan
          ELSE Bind(CHOOSE i \in matches : \A j \in matches : i <= j, LAMBDA i :
            Bind(RdU16(mem, t[3].val + 2 * i), LAMBDA hint :
              IF \/ \E j \in 0 .. (i - 1) : ~Found(HandlePlace(RdU32(mem, t[2].val + 4 * j)))
                 \/ ~InRegion(mem, t[3].val + 2 * i + 1)
                 \/ hint >= t[5]
                 \/ ~InRegion(mem, t[1].val + 4 * hint + 3)
              THEN NoScan
              ELSE [tag |-> "some", val |-> RdU32(mem, t[1].val + 4 * hint),
                    first |-> i, names |-> t[2].val, dir |-> ed.val,
                    hint |-> t[3].val + 2 * i, entry |-> t[1].val + 4 * hint])))))

\* what a scan that stops at index x.first has to read: the headers, the
\* export directory, the names up to x.first, one hint and one entry
ScanReads(x) ==
    (0 .. (AddrOf_Section(pe, MAX_SECTION_HEADER_LEN) - 1))
      \cup Span(x.dir, SIZEOF_EXPORT_DIRECTORY)
      \cup UNION {Span(x.names + 4 * j, 4)
                    \cup StrReads(mem, HandlePlace(RdU32(mem, x.names + 4 * j)).val)
                  : j \in 0 .. x.first}
      \cup Span(x.hint, 2) \cup Span(x.entry, 4)

\* C14: the exact-name lookup scans the name table from index 0 and, at
\* the first index i whose name equals the requested name byte for byte,
\* returns function-address-table entry [hint[i]]; it consults no name
\* after the first match; string offsets are translated only when the
\* handle is in unmapped state.
C14_FirstMatchingNameWins ==
    (/\ op.name = "get_export_rva" /\ pe.state = "ok"
     /\ ~InputUpperHalfZero
     /\ ExpectedScan(op.arg[1]).tag = "some"
     /\ InBounds(ScanReads(ExpectedScan(op.arg[1]))))
        => \A x \in {ExpectedScan(op.arg[1])} :
             /\ res.tag = "some"
             /\ res.val = x.val
             /\ res.reads \subseteq ScanReads(x)

C14_Witness_SecondNameMatched ==
    /\ op.name = "get_export_rva" /\ pe.state = "ok"
    /\ ~InputUpperHalfZero
    /\ ExpectedScan(op.arg[1]).tag = "some"
    /\ InBounds(ScanReads(ExpectedScan(op.arg[1])))
    /\ ExpectedScan(op.arg[1]).first > 0
    /\ res.tag = "some"

\* the fields of the export directory only one of the two paths reads:
\* Base (the ordinal bound check) and AddressOfNames (the name scan)
ReadsBase == (HandleExportDirectory.val + OFF_Base) \in res.reads
ReadsAddressOfNames == (HandleExportDirectory.val + OFF_AddressOfNames) \in res.reads

\* every byte a name scan may read behind the directory's fields: the
\* slots of the name table, the strings they point to, their hints and the
\* function-table entries under those hints
NameScanMayRead ==
    UNION {Bind(<< HandlePlace(RdU32(mem, HandleExportDirectory.val + OFF_AddressOfNames)).val,
                   HandlePlace(RdU32(mem, HandleExportDirectory.val + OFF_AddressOfNameOrdinals)).val,
                   HandleFunctionTable.val >>,
                LAMBDA t :
                  UNION {Span(t[1] + 4 * j, 4)
                           \cup StrReads(mem, HandlePlace(RdU32(mem, t[1] + 4 * j)).val)
                           \cup Span(t[2] + 2 * j, 2)
                           \cup Span(t[3] + 4 * RdU16(mem, t[2] + 2 * j), 4)
                         : j \in 0 .. (Min(RdU32(mem, HandleExportDirectory.val + OFF_NumberOfNames),
                                            Fit(mem, t[1], 4)) - 1)})}
\* the entry an ordinal lookup may read
OrdinalSlot ==
    Span(HandleFunctionTable.val
           + 4 * (InputLowerHalf - RdU32(mem, HandleExportDirectory.val + OFF_Base)), 4)
\* the tables lie clear of the two directory fields that tell the paths apart
TablesClearOfFields ==
    /\ NameScanMayRead \cap Span(HandleExportDirectory.val + OFF_Base, 4) = {}
    /\ OrdinalSlot \cap Span(HandleExportDirectory.val + OFF_AddressOfNames, 4) = {}

C15_Witness_TakenAsName ==
    /\ op.name = "get_export_rva" /\ pe.state = "ok"
    /\ HandleTablesFound /\ TablesClearOfFields
    /\ ~InputUpperHalfZero
    /\ ReadsAddressOfNames
    /\ res.tag = "some"

\* the import directory of the image in mem: its table where translation
\* puts it, the descriptor slots its Size covers, and of those the ones in
\* front of the first all-zero (terminating) descriptor
ImportTable ==
    rva_to_foa(mem, pe, overflow_checks,
               DataDirectory_VirtualAddress(mem, pe, IMAGE_DIRECTORY_ENTRY_IMPORT))
ImportSlots ==
    0 .. (Min(DataDirectory_Size(mem, pe, IMAGE_DIRECTORY_ENTRY_IMPORT)
                 \div SIZEOF_IMPORT_DESCRIPTOR,
              Fit(mem, ImportTable.val + SIZEOF_IMPORT_DESCRIPTOR - 1,
                  SIZEOF_IMPORT_DESCRIPTOR)) - 1)
DescriptorAt(d) == ImportTable.val + SIZEOF_IMPORT_DESCRIPTOR * d
IsTerminator(d) ==
    \A a \in Span(DescriptorAt(d), SIZEOF_IMPORT_DESCRIPTOR) : RdU8(mem, a) = 0
DeclaredDescriptors ==
    {d \in ImportSlots : \A e \in 0 .. d : ~IsTerminator(e)}
ModuleNamePlace(d) ==
    rva_to_foa(mem, pe, overflow_checks, RdU32(mem, DescriptorAt(d) + OFF_ImportName))
ModuleName(d) == StrAt(mem, ModuleNamePlace(d).val)
SevenBit(str) == \A k \in 1 .. Len(str) : str[k] < 128
ImportDirectoryReadable ==
    /\ Found(ImportTable)
    /\ DataDirectory_Size(mem, pe, IMAGE_DIRECTORY_ENTRY_IMPORT)
          \div SIZEOF_IMPORT_DESCRIPTOR = Cardinality(ImportSlots)
    /\ \A d \in DeclaredDescriptors : Found(ModuleNamePlace(d))

\* C16: the mapped state fixed at construction is true exactly when some
\* import descriptor the import directory declares has a module name that
\* is not all 7-bit ASCII; unless such a name ends the inspection, every
\* declared descriptor is inspected.
C16_MappedIffNonAsciiImportName ==
    (/\ op.name = "from_address" /\ pe.state = "ok" /\ InBounds(res.reads)
     /\ ImportDirectoryReadable) =>
        /\ pe.is_mapped <=> \E d \in DeclaredDescriptors : ~SevenBit(ModuleName(d))
        /\ ~pe.is_mapped =>
              \A d \in DeclaredDescriptors : (DescriptorAt(d) + OFF_ImportName) \in res.reads

\* the bytes a translation reads: NumberOfRvaAndSizes and the section
\* headers the translator scans
TranslatorMayRead ==
    Span(AddrOf_NumberOfRvaAndSizes(pe), 4)
      \cup Span(section_headers_base(pe),
                SIZEOF_SECTION_HEADER * section_headers_len(mem, pe))

\* What an export lookup may read when every offset is looked for at its
\* HandlePlace: entry j of the name table at names, its string, its hint
\* and the function-table entry under the hint
HintMayRead(ed, eat, j) ==
    UNION {IF ~Found(hints) THEN {}
           ELSE Span(hints.val + 2 * j, 2)
                  \cup Span(eat + 4 * RdU16(mem, hints.val + 2 * j), 4)
           : hints \in {HandlePlace(RdU32(mem, ed + OFF_AddressOfNameOrdinals))}}
NameEntryMayRead(ed, eat, names, j) ==
    Span(names + 4 * j, 4)
      \cup UNION {IF ~Found(str) THEN {}
                  ELSE StrReads(mem, str.val) \cup HintMayRead(ed, eat, j)
                  : str \in {HandlePlace(RdU32(mem, names + 4 * j))}}
NamesMayRead(ed, eat) ==
    UNION {IF ~Found(names) THEN {}
           ELSE UNION {NameEntryMayRead(ed, eat, names.val, j)
                       : j \in 0 .. Min(RdU32(mem, ed + OFF_NumberOfNames) - 1,
                                        Fit(mem, names.val, 4))}
           : names \in {HandlePlace(RdU32(mem, ed + OFF_AddressOfNames))}}
\* the function-table entry of an input taken as an ordinal
OrdinalMayRead(ed, eat) ==
    IF op.name = "get_export_rva" /\ InputUpperHalfZero
    THEN Span(eat + 4 * (InputLowerHalf - RdU32(mem, ed + OFF_Base)), 4)
    ELSE {}
ExportTablesMayRead(ed) ==
    UNION {IF ~Found(eat) THEN {}
           ELSE OrdinalMayRead(ed, eat.val) \cup NamesMayRead(ed, eat.val)
           : eat \in {HandlePlace(RdU32(mem, ed + OFF_AddressOfFunctions))}}
ExportMayRead ==
    Span(AddrOf_DataDirectory(pe, IMAGE_DIRECTORY_ENTRY_EXPORT), 4)
      \cup UNION {IF ~Found(ed) THEN {}
                  ELSE Span(ed.val, SIZEOF_EXPORT_DIRECTORY) \cup ExportTablesMayRead(ed.val)
                  : ed \in {HandlePlace(DataDirectory_VirtualAddress(
                                           mem, pe, IMAGE_DIRECTORY_ENTRY_EXPORT))}}

\* the same for a resource extraction: the tables of the walk below the
\* root at its HandlePlace, and the leaf's two fields
ResourceRoot ==
    HandlePlace(DataDirectory_VirtualAddress(mem, pe, IMAGE_DIRECTORY_ENTRY_RESOURCE))
ResourceLeaf == get_resource_data_entry(mem, ResourceRoot.val, op.arg[1])
ResourceMayRead ==
    Span(AddrOf_DataDirectory(pe, IMAGE_DIRECTORY_ENTRY_RESOURCE), 4)
      \cup (IF ~Found(ResourceRoot) THEN {}
            ELSE ResourceLeaf.reads
                   \cup (IF ~Found(ResourceLeaf) THEN {}
                         ELSE Span(ResourceLeaf.val + OFF_DataRVA, 4)
                                \cup Span(ResourceLeaf.val + OFF_DataSize, 4)))
ResourceData == HandlePlace(RdU32(mem, ResourceLeaf.val + OFF_DataRVA))

TranslatingOperations ==
    {"get_export_rva", "get_export_rva_xor_string", "get_pe_resource"}
\* some offset the operation follows lies elsewhere once translated
TranslationMoves(rva) ==
    /\ rva_to_foa(mem, pe, overflow_checks, rva).tag = "some"
    /\ rva_to_foa(mem, pe, overflow_checks, rva).val # rva

\* C17: translation is applied only on unmapped images.  On a handle in
\* mapped state resolve_export, resolve_export_xor and extract_resource
\* read the directory, the tables, the strings and the data at their
\* untranslated offsets and never run the translator; on a handle in
\* unmapped state they read each of them at its translated offset, the
\* translator having run.
C17_TranslationOnlyWhenUnmapped ==
    (op.name \in TranslatingOperations /\ pe.state = "ok") =>
        /\ res.reads \subseteq
              (IF op.name = "get_pe_resource" THEN ResourceMayRead ELSE ExportMayRead)
                \cup (IF pe.is_mapped THEN {} ELSE TranslatorMayRead)
        /\ ~pe.is_mapped => Span(AddrOf_NumberOfRvaAndSizes(pe), 4) \subseteq res.reads
        /\ (op.name = "get_pe_resource" /\ res.tag = "some") => res.val = ResourceData.val

C17_Witness_MappedUntranslated ==
    /\ op.name = "get_export_rva" /\ pe.state = "ok" /\ pe.is_mapped
    /\ ~InputUpperHalfZero
    /\ TranslationMoves(DataDirectory_VirtualAddress(mem, pe, IMAGE_DIRECTORY_ENTRY_EXPORT))
    /\ res.tag = "some"
C17_Witness_UnmappedTranslated ==
    /\ op.name = "get_pe_resource" /\ pe.state = "ok" /\ ~pe.is_mapped
    /\ TranslationMoves(DataDirectory_VirtualAddress(mem, pe, IMAGE_DIRECTORY_ENTRY_RESOURCE))
    /\ res.tag = "some" /\ res.len > 0

\* the scan for virtual offset x comes to section k: no section in front
\* of k contains x
ScanComesTo(k, x) == \A j \in 0 .. (k - 1) : ~InSectionRange(j, x)
\* the file offsets of section k's raw data
InRawData(k, foa) ==
    /\ Section_PointerToRawData(mem, pe, k) <= foa
    /\ foa < Section_PointerToRawData(mem, pe, k) + Section_SizeOfRawData(mem, pe, k)

\* C18: whenever translate matches a section, the file offset it returns
\* lies inside that section's raw data (PointerToRawData <= result <
\* PointerToRawData + SizeOfRawData), and neither VirtualAddress +
\* SizeOfRawData nor PointerToRawData + (offset - VirtualAddress) exceeds
\* 32 bits.
C18_ResultInsideRawData ==
    (Translated /\ SectionIndices # {} /\ ~InHeaderRegion(op.arg[1])) =>
        \A k \in SectionIndices :
           (ScanComesTo(k, op.arg[1]) /\ Section_VirtualAddress(mem, pe, k) <= op.arg[1]) =>
               /\ Section_VirtualAddress(mem, pe, k) + Section_SizeOfRawData(mem, pe, k) < U32
               /\ InSectionRange(k, op.arg[1]) =>
                     /\ Section_PointerToRawData(mem, pe, k)
                           + (op.arg[1] - Section_VirtualAddress(mem, pe, k)) < U32
                     /\ res.tag = "some"
                     /\ InRawData(k, res.val)
====
